---- MODULE Spec2Model ----
(***************************************************************************)
(* The batch schedulers of svina's main(): the sequential / fork batch     *)
(* loop and the MPI governor / worker farm, over a job file modelled byte  *)
(* by byte and read through a model of std::ifstream.                      *)
(***************************************************************************)
EXTENDS Integers, Sequences, FiniteSets, TLC

(* ------------------------------ bounds --------------------------------- *)
\* longest job file given to the batch loop, in bytes
MaxBatchFile == 6
\* longest job file given to the farm, in bytes
MaxFarmFile == 3
\* longest job file given to the farm when its termination is checked
MaxLiveFile == 2
\* largest value of the forknbr option
MaxFork == 2
\* largest MPI world size (governor + workers)
MaxWorldSize == 3

(* ---------------------------- the job file ----------------------------- *)
NL == "\n"
\* the bytes a job file is made of: a path character, a blank, a newline
Chars == {"a", " ", NL}
\* the whitespace set of the governor's find_first_not_of
Whitespace == {" ", NL}

JobFiles(max) == UNION {[1..n -> Chars] : n \in 0..max}

(* ----------------------------- std::ifstream --------------------------- *)
\* std::ifstream infile(job_file.c_str()): a failed open sets failbit
OpenStream(ok) == [open |-> ok, pos |-> 0, eof |-> FALSE, fail |-> ~ok]

Good(s) == ~s.eof /\ ~s.fail

MinOf(S) == CHOOSE x \in S : \A y \in S : x <= y

\* std::getline(infile, path) on a fresh empty string: a stream that is not
\* good only gets failbit; else bytes are taken up to and including the next
\* newline; running into the end of the file sets eofbit, and failbit too
\* when nothing at all was extracted.
GetLine(s, file) ==
  IF ~Good(s)
  THEN [s |-> [s EXCEPT !.fail = TRUE], str |-> <<>>]
  ELSE LET nls == {j \in (s.pos + 1)..Len(file) : file[j] = NL}
       IN IF nls = {}
          THEN [s   |-> [s EXCEPT !.pos = IF s.pos > Len(file) THEN s.pos ELSE Len(file),
                                  !.eof = TRUE,
                                  !.fail = (s.pos >= Len(file))],
                str |-> SubSeq(file, s.pos + 1, Len(file))]
          ELSE [s   |-> [s EXCEPT !.pos = MinOf(nls)],
                str |-> SubSeq(file, s.pos + 1, MinOf(nls) - 1)]

\* infile.tellg(): the position of a good stream, -1 otherwise
TellG(s) == IF Good(s) THEN s.pos ELSE -1

\* a worker that reads on from wherever its stream is
SeekGOmitted(s, off) == s

\* infile.seekg(off): clears eofbit; a failed stream is left alone; a
\* negative position fails
SeekG(s, off) ==
  LET s1 == [s EXCEPT !.eof = FALSE]
  IN IF s1.fail THEN s1
     ELSE IF off < 0 THEN [s1 EXCEPT !.fail = TRUE]
     ELSE [s1 EXCEPT !.pos = off]

\* path.find_first_not_of(" \t\n\v\f\r") == std::string::npos
AllWhitespace(str) == \A k \in 1..Len(str) : str[k] \in Whitespace

(* ------------------- the pipeline call and its catch ------------------- *)
\* parse_ligand_pdbqt + main_procedure inside try: a ligand path that is
\* empty cannot be opened and throws; any other path may succeed or throw.
Outcomes(p) == IF p = <<>> THEN {FALSE} ELSE BOOLEAN

(* ======================= sequential / fork batch ======================= *)
VARIABLES
  jobfile,               \* the bytes of the job file
  batchMode,             \* option --batch
  use_mpi_parallelism,   \* option --mpi
  use_fork_parallelism,  \* option --fork-parallelism
  maxNbrOfFork,          \* option forknbr
  ppc,                   \* where the parent is in the batch loop
  infile,                \* the parent's std::ifstream
  path,                  \* the line just read
  i,                     \* the parent's ligand counter
  a,                     \* draws made from the parent's rng
  pid_queue,             \* std::queue<int> of child pids
  child,                 \* the processes fork() created, by pid
  runs,                  \* pipeline invocations made by the parent itself
  rc                     \* main's return value, once it returned early

\* the command line and the job file: never written after start-up
input == <<jobfile, batchMode, use_mpi_parallelism, use_fork_parallelism,
           maxNbrOfFork>>

batchVars == <<ppc, infile, path, i, a, pid_queue, child, runs, rc>>

\* forknbr is an int option; 0 and negative values are accepted
ForkNbrs == (-1)..MaxFork

\* the batch loop is entered: if(batchMode == true && use_mpi_parallelism == false)
BatchStart ==
  /\ ppc = "read"
  /\ infile = OpenStream(TRUE)
  /\ path = <<>>
  /\ i = 0
  /\ a = 0
  /\ pid_queue = <<>>
  /\ child = <<>>
  /\ runs = <<>>
  /\ rc = 0

\* an end test on the path alone: if (path == "")
EndOfJobsOnEmptyPath(s, str) == str = <<>>

\* if (infile.eof() || path == "")
EndOfJobs(s, str) == s.eof \/ str = <<>>

\* a batch loop that breaks at end of jobs without the drain loop
DrainSkipped(fork, q) == FALSE

\* while(use_fork_parallelism == true && pid_queue.size() != 0)
DrainPending(fork, q) == fork /\ Len(q) # 0

\* an admission test that is off by one: size() > maxNbrOfFork
AdmissionFullLate(q, n) == IF n < 0 THEN FALSE ELSE Len(q) > n

\* if(pid_queue.size() >= maxNbrOfFork): size_t against int, so a negative
\* int converts to a value no queue size reaches
AdmissionFull(q, n) == IF n < 0 THEN FALSE ELSE Len(q) >= n

\* the children the parent has not reaped yet
Unreaped == {c \in 1..Len(child) : child[c].state # "reaped"}
Zombies == {c \in 1..Len(child) : child[c].state = "zombie"}

\* std::getline and the end-of-jobs test at the top of the loop
ReadJob ==
  /\ ppc = "read"
  /\ LET g == GetLine(infile, jobfile)
     IN /\ infile' = g.s
        /\ path' = g.str
        /\ IF EndOfJobs(g.s, g.str)
           THEN /\ ppc' = "drain"
                /\ a' = a
           ELSE /\ ppc' = IF use_fork_parallelism THEN "fork" ELSE "run"
                /\ a' = a + 2
  /\ UNCHANGED <<input, i, pid_queue,
                 child, runs, rc>>

\* wait(&(pid_queue.front())); pid_queue.pop(): wait(2) returns for whichever
\* child terminated, stores its status in the front slot, and the front slot
\* is then popped
WaitAndPop(c) ==
  /\ c \in Zombies
  /\ child' = [child EXCEPT ![c].state = "reaped"]
  /\ pid_queue' = Tail(pid_queue)

\* the drain loop at end of jobs, one wait per turn
DrainWait(c) ==
  /\ ppc = "drain"
  /\ DrainPending(use_fork_parallelism, pid_queue)
  /\ WaitAndPop(c)
  /\ UNCHANGED <<input, ppc, infile,
                 path, i, a, runs, rc>>

\* break out of the batch loop
LeaveLoop ==
  /\ ppc = "drain"
  /\ ~DrainPending(use_fork_parallelism, pid_queue)
  /\ ppc' = "done"
  /\ UNCHANGED <<input, infile, path,
                 i, a, pid_queue, child, runs, rc>>

\* pid = fork() > 0: the parent pushes the pid and tests the queue size; the
\* child starts with copies of the stream and of the queue as they are at
\* the fork
ForkParent ==
  /\ ppc = "fork"
  /\ LET pid == Len(child) + 1
         q == Append(pid_queue, pid)
     IN /\ child' = Append(child, [state |-> "running", path |-> path,
                                   seed |-> a, i |-> i, ok |-> FALSE,
                                   calls |-> 0, infile |-> infile,
                                   pid_queue |-> pid_queue])
        /\ pid_queue' = q
        /\ ppc' = IF AdmissionFull(q, maxNbrOfFork) THEN "admit" ELSE "read"
  /\ UNCHANGED <<input, infile, path,
                 i, a, runs, rc>>

\* a parent that reports the failed fork and goes on with the next line
OnForkFailureNextLine == "read"

\* a parent that waits for its children before it gives up
OnForkFailureDrain == "drain"

\* pid < 0: printf("fork() failed! ..."); return 10;
OnForkFailure == "returned"

\* pid = fork() < 0: return 10
ForkFailed ==
  /\ ppc = "fork"
  /\ ppc' = OnForkFailure
  /\ rc' = 10
  /\ UNCHANGED <<input, infile, path,
                 i, a, pid_queue, child, runs>>

\* the wait of the admission test, then continue
AdmitWait(c) ==
  /\ ppc = "admit"
  /\ WaitAndPop(c)
  /\ ppc' = "read"
  /\ UNCHANGED <<input, infile, path,
                 i, a, runs, rc>>

\* a catch handler that continues the loop in a child as well
ChildAfterCatchContinues(ok) == IF ok THEN "zombie" ELSE "running"

\* if(is_a_child_process) break; after the call and in the catch handler
\* alike: the child leaves the loop and main() returns
ChildAfter(ok) == "zombie"

\* pid == 0: the child runs the pipeline once and breaks, thrown or not
ChildRun(c, ok) ==
  /\ c \in 1..Len(child)
  /\ child[c].state = "running"
  /\ ok \in Outcomes(child[c].path)
  /\ child' = [child EXCEPT ![c].state = ChildAfter(ok), ![c].ok = ok,
                            ![c].calls = @ + 1]
  /\ UNCHANGED <<input, ppc, infile,
                 path, i, a, pid_queue, runs, rc>>

\* a catch handler that breaks out of the loop in the parent as well
CatchBreaks == "drain"

\* catch(...) when not a child: continue
CatchInParent == "read"

\* without fork the parent runs the pipeline itself: i++ on success,
\* continue from the catch on a throw
ParentRun(ok) ==
  /\ ppc = "run"
  /\ ok \in Outcomes(path)
  /\ runs' = Append(runs, [path |-> path, seed |-> a, i |-> i, ok |-> ok])
  /\ IF ok
     THEN /\ i' = i + 1
          /\ ppc' = "read"
     ELSE /\ i' = i
          /\ ppc' = CatchInParent
  /\ UNCHANGED <<input, infile, path,
                 a, pid_queue, child, rc>>

\* the batch branch is not taken
BatchOff ==
  /\ ppc = "off"
  /\ infile = OpenStream(FALSE)
  /\ path = <<>>
  /\ i = 0
  /\ a = 0
  /\ pid_queue = <<>>
  /\ child = <<>>
  /\ runs = <<>>
  /\ rc = 0

(* ===================== the pipeline of one job: do_search =============== *)
\* most poses the global search returns
MaxPool == 2
\* the conformations: points half an angstrom apart on a line
MaxPoint == 3
\* the finite energies the minimizer and the scoring function return
MaxEnergy == 1
\* largest value of the num_modes option
MaxModes == 2
\* most poses of a pool handed to remove_redundant on its own
MaxDedupPool == 3

\* point 0 lies outside the search box, every other point inside
Points == 0..MaxPoint
Box == 1..MaxPoint
Energies == 0..MaxEnergy

\* the energy_range option is any fl: negative, zero, the whole span
EnergyRanges == (-1)..MaxEnergy

\* max_fl, the energy of an invalid pose; above every sum e + energy_range
max_fl == 1000

\* not_max(x): x is not the energy of an invalid pose
not_max(x) == x # max_fl

\* const fl slope = 1e6; slopes are powers of ten and are held as their
\* decimal exponent
slope == 6

\* a schedule that adds one decade per attempt
SlopeOfDecade(q) == 2 + q

\* 100 * std::pow(10.0, 2.0*p), as its decimal exponent
SlopeOf(p) == 2 + 2 * p

\* the number of attempts of VINA_FOR(p, 5)
Attempts == 5

VARIABLES
  num_modes,     \* parameter of do_search
  energy_range,  \* parameter of do_search
  spc,           \* where do_search is
  out_cont,      \* output_container: poses [c, e]; c stands for the
                 \* conformation and the coordinates derived from it
  ri,            \* the index i of the refinement loop
  rpc,           \* where the current refine_structure call is
  rp,            \* the attempt counter p of refine_structure; 0 outside
                 \* the call
  nc_slope,      \* nc.slope
  slope_orig,    \* the local slope_orig of refine_structure
  refined,       \* per pose the search returned, the calls made for it
  how_many,      \* the counter of the selection loop
  remarks,       \* the remark of each row the selection loop emitted
  outfile,       \* the output file: whether written, and its models
  warned,        \* the warning of line 300 was logged
  events,        \* the phases do_search went through, in order
  attempts       \* the minimizer runs of the refine_structure call under way

searchVars == <<num_modes, energy_range, spc, out_cont, ri, rpc, rp, nc_slope,
                slope_orig, refined, how_many, remarks, outfile, warned,
                events, attempts>>

Pose(c, e) == [c |-> c, e |-> e]

\* nc.within(m) after m.set(out.c)
Within(c) == c \in Box

\* a pose anywhere, at a finite energy
Poses == {Pose(c, e) : c \in Points, e \in Energies}

\* par(m, out_cont, ...): the global search returns any pool of poses
SearchResults == UNION {[1..n -> Poses] : n \in 0..MaxPool}

\* quasi_newton_par(m, prec, nc, out, g, cap): the minimizer moves the pose
\* anywhere and sets its energy to a finite value
Minimized(out) == Poses

\* do_search is entered in search mode, nc just constructed with slope
SearchStart ==
  /\ num_modes \in 1..MaxModes
  /\ energy_range \in EnergyRanges
  /\ spc = "search"
  /\ out_cont = <<>>
  /\ ri = 0
  /\ rpc = "out"
  /\ rp = 0
  /\ nc_slope = slope
  /\ slope_orig = slope
  /\ refined = <<>>
  /\ how_many = 0
  /\ remarks = <<>>
  /\ outfile = [written |-> FALSE, models |-> <<>>]
  /\ warned = FALSE
  /\ events = <<>>
  /\ attempts = <<>>

\* no job is in do_search
SearchOff ==
  /\ num_modes = 1
  /\ energy_range = 0
  /\ spc = "off"
  /\ out_cont = <<>>
  /\ ri = 0
  /\ rpc = "out"
  /\ rp = 0
  /\ nc_slope = slope
  /\ slope_orig = slope
  /\ refined = <<>>
  /\ how_many = 0
  /\ remarks = <<>>
  /\ outfile = [written |-> FALSE, models |-> <<>>]
  /\ warned = FALSE
  /\ events = <<>>
  /\ attempts = <<>>

\* the global search, line 239
Search ==
  /\ spc = "search"
  /\ out_cont' \in SearchResults
  /\ refined' = [k \in 1..Len(out_cont') |-> 0]
  /\ spc' = "refine"
  /\ ri' = 0
  /\ events' = Append(events, "search")
  /\ UNCHANGED attempts
  /\ UNCHANGED <<num_modes, energy_range, rpc, rp, nc_slope, slope_orig,
                 how_many, remarks, outfile, warned>>

\* refine_structure is called for out_cont[i]: const fl slope_orig = nc.slope
RefineEnter ==
  /\ spc = "refine"
  /\ rpc = "out"
  /\ ri < Len(out_cont)
  /\ slope_orig' = nc_slope
  /\ rp' = 0
  /\ rpc' = "loop"
  /\ events' = Append(events, "refine")
  /\ attempts' = <<>>
  /\ UNCHANGED <<num_modes, energy_range, spc, out_cont, ri, nc_slope,
                 refined, how_many, remarks, outfile, warned>>

\* one attempt: the slope is set, the minimizer runs, the model takes the
\* pose, and the loop breaks if the pose is within the box
RefineAttempt(res) ==
  /\ rpc = "loop"
  /\ rp < Attempts
  /\ res \in Minimized(out_cont[ri + 1])
  /\ nc_slope' = SlopeOf(rp)
  /\ out_cont' = [out_cont EXCEPT ![ri + 1] = res]
  /\ attempts' = Append(attempts, [slope |-> nc_slope',
                                   within |-> Within(res.c)])
  /\ IF Within(res.c)
     THEN /\ rpc' = "after"
          /\ rp' = rp
     ELSE /\ rp' = rp + 1
          /\ rpc' = IF rp + 1 < Attempts THEN "loop" ELSE "after"
  /\ UNCHANGED <<num_modes, energy_range, spc, ri, slope_orig, refined,
                 how_many, remarks, outfile, warned, events>>

\* a refine_structure that leaves the energy of the minimizer in place
EnergyOnReturnKept(within, e) == e

\* if(!nc.within(m)) out.e = max_fl;
EnergyOnReturn(within, e) == IF ~within THEN max_fl ELSE e

\* a refine_structure that returns without the last assignment
SlopeOnReturnLeft(orig, cur) == cur

\* nc.slope = slope_orig;
SlopeOnReturn(orig, cur) == orig

\* a refinement loop that steps over every other pose
NextPoseSkipping(k) == k + 2

\* VINA_FOR_IN(i, out_cont)
NextPose(k) == k + 1

\* after the loop: the coordinates, the invalid energy, the slope; the call
\* returns and the refinement loop goes to the next pose
RefineLeave ==
  /\ rpc = "after"
  /\ out_cont' = [out_cont EXCEPT ![ri + 1].e =
                    EnergyOnReturn(Within(out_cont[ri + 1].c), @)]
  /\ nc_slope' = SlopeOnReturn(slope_orig, nc_slope)
  /\ refined' = [refined EXCEPT ![ri + 1] = @ + 1]
  /\ ri' = NextPose(ri)
  /\ rpc' = "out"
  /\ rp' = 0
  /\ attempts' = <<>>
  /\ UNCHANGED <<num_modes, energy_range, spc, slope_orig, how_many,
                 remarks, outfile, warned, events>>

\* the refinement loop is over; if(!out_cont.empty()) guards the sorts
RefineDone ==
  /\ spc = "refine"
  /\ rpc = "out"
  /\ ri >= Len(out_cont)
  /\ spc' = IF out_cont # <<>> THEN "sort" ELSE "dedup"
  /\ UNCHANGED attempts
  /\ UNCHANGED <<num_modes, energy_range, out_cont, ri, rpc, rp, nc_slope,
                 slope_orig, refined, how_many, remarks, outfile, warned,
                 events>>

\* operator< of output_type: by energy
NonDecreasing(pool) ==
  \A k \in 1..(Len(pool) - 1) : pool[k].e <= pool[k + 1].e

\* the arrangements of a pool
Arrangements(pool) ==
  {[k \in 1..Len(pool) |-> pool[f[k]]] :
     f \in {g \in [1..Len(pool) -> 1..Len(pool)] :
              \A a1, a2 \in 1..Len(pool) : g[a1] = g[a2] => a1 = a2}}

\* out_cont.sort(): any arrangement that is in order; the sort is not stable
Sorted(pool) == {q \in Arrangements(pool) : NonDecreasing(q)}

\* a do_search that trusts the order to survive the re-scoring
ResortedNot(pool) == {pool}

\* the second out_cont.sort(), line 259
Resorted(pool) == Sorted(pool)

\* a re-scoring without the test of line 256
RescoredAll(pose, e) == [pose EXCEPT !.e = e]

\* if(not_max(out_cont[i].e)) out_cont[i].e = m.eval_adjusted(...)
Rescored(pose, e) == IF not_max(pose.e) THEN [pose EXCEPT !.e = e] ELSE pose

\* the first sort, line 253
SortPool ==
  /\ spc = "sort"
  /\ out_cont' \in Sorted(out_cont)
  /\ spc' = "rescore"
  /\ events' = Append(events, "sort")
  /\ UNCHANGED attempts
  /\ UNCHANGED <<num_modes, energy_range, ri, rpc, rp, nc_slope, slope_orig,
                 refined, how_many, remarks, outfile, warned>>

\* the re-scoring loop, lines 254-257: the scoring function returns any
\* finite energy for each pose
Rescore ==
  /\ spc = "rescore"
  /\ \E es \in [1..Len(out_cont) -> Energies] :
       out_cont' = [k \in 1..Len(out_cont) |-> Rescored(out_cont[k], es[k])]
  /\ spc' = "resort"
  /\ UNCHANGED attempts
  /\ UNCHANGED <<num_modes, energy_range, ri, rpc, rp, nc_slope, slope_orig,
                 refined, how_many, remarks, outfile, warned, events>>

\* the second sort, line 259
ResortPool ==
  /\ spc = "resort"
  /\ out_cont' \in Resorted(out_cont)
  /\ spc' = "dedup"
  /\ UNCHANGED attempts
  /\ UNCHANGED <<num_modes, energy_range, ri, rpc, rp, nc_slope, slope_orig,
                 refined, how_many, remarks, outfile, warned, events>>

\* const fl out_min_rmsd = 1;
out_min_rmsd == 1

\* twice the RMSD between two poses, in angstrom: the points are half an
\* angstrom apart
TwiceRmsd(a1, a2) == IF a1.c >= a2.c THEN a1.c - a2.c ELSE a2.c - a1.c

\* add_to_output_container(tmp, t, min_rmsd, max_size): t is accepted only
\* if its RMSD to every pose already accepted is >= min_rmsd, and while the
\* container is below its capacity
add_to_output_container(tmp, t, min_rmsd, max_size) ==
  IF /\ \A k \in 1..Len(tmp) : TwiceRmsd(tmp[k], t) >= 2 * min_rmsd
     /\ Len(tmp) < max_size
  THEN Append(tmp, t)
  ELSE tmp

\* VINA_FOR_IN(i, in) add_to_output_container(tmp, in[i], min_rmsd, in.size())
RECURSIVE RedundantLoop(_, _, _, _)
RedundantLoop(in, k, tmp, min_rmsd) ==
  IF k > Len(in) THEN tmp
  ELSE RedundantLoop(in, k + 1,
                     add_to_output_container(tmp, in[k], min_rmsd, Len(in)),
                     min_rmsd)

\* a remove_redundant that returns its input
remove_redundant_copy(in, min_rmsd) == in

\* a remove_redundant whose loop starts at the second pose
remove_redundant_from_second(in, min_rmsd) ==
  RedundantLoop(in, 2, <<>>, min_rmsd)

\* a sequence back to front
Reversed(seq) == [k \in 1..Len(seq) |-> seq[Len(seq) + 1 - k]]

\* a remove_redundant whose loop runs from the last pose to the first
remove_redundant_descending(in, min_rmsd) ==
  Reversed(RedundantLoop(Reversed(in), 1, <<>>, min_rmsd))

\* output_container tmp; the loop over in; return tmp
remove_redundant(in, min_rmsd) == RedundantLoop(in, 1, <<>>, min_rmsd)

\* out_cont = remove_redundant(out_cont, out_min_rmsd);
Dedup ==
  /\ spc = "dedup"
  /\ out_cont' = remove_redundant(out_cont, out_min_rmsd)
  /\ spc' = "select"
  /\ events' = Append(events, "dedup")
  /\ UNCHANGED attempts
  /\ UNCHANGED <<num_modes, energy_range, ri, rpc, rp, nc_slope, slope_orig,
                 refined, how_many, remarks, outfile, warned>>

\* a selection loop that tests how_many > num_modes
StopSelectingLate(n, pose, best) ==
  \/ n > num_modes
  \/ ~not_max(pose.e)
  \/ pose.e > best.e + energy_range

\* if(how_many >= num_modes || !not_max(out_cont[i].e)
\*    || out_cont[i].e > out_cont[0].e + energy_range) break;
StopSelecting(n, pose, best) ==
  \/ n >= num_modes
  \/ ~not_max(pose.e)
  \/ pose.e > best.e + energy_range

\* the selection loop, lines 280-294: the rows emitted before the break
RECURSIVE SelectionLoop(_, _, _)
SelectionLoop(pool, k, n) ==
  IF k > Len(pool) THEN n
  ELSE IF StopSelecting(n, pool[k], pool[1]) THEN n
  ELSE SelectionLoop(pool, k + 1, n + 1)

\* vina_remark(out_cont[i].e, lb, ub): the energy the row carries
vina_remark(pose) == pose.e

Select ==
  /\ spc = "select"
  /\ how_many' = SelectionLoop(out_cont, 1, 0)
  /\ remarks' = [k \in 1..how_many' |-> vina_remark(out_cont[k])]
  /\ spc' = "write"
  /\ events' = Append(events, "select")
  /\ UNCHANGED attempts
  /\ UNCHANGED <<num_modes, energy_range, out_cont, ri, rpc, rp, nc_slope,
                 slope_orig, refined, outfile, warned>>

\* write_all_output: how_many is capped at out.size(), VINA_CHECK throws
\* when remarks are missing, else the first how_many poses are written
WriteOutput ==
  /\ spc = "write"
  /\ LET n == IF Len(out_cont) < how_many THEN Len(out_cont) ELSE how_many
     IN IF n <= Len(remarks)
        THEN /\ outfile' = [written |-> TRUE,
                            models |-> [k \in 1..n |->
                                          [c |-> out_cont[k].c,
                                           remark |-> remarks[k]]]]
             /\ spc' = "warn"
             /\ events' = Append(events, "write")
        ELSE /\ spc' = "thrown"
             /\ UNCHANGED <<outfile, events>>
  /\ UNCHANGED attempts
  /\ UNCHANGED <<num_modes, energy_range, out_cont, ri, rpc, rp, nc_slope,
                 slope_orig, refined, how_many, remarks, warned>>

\* a warning that is also given for a single pose
NoneSelectedOrOne(n) == n <= 1

\* if(how_many < 1)
NoneSelected(n) == n < 1

\* the warning of lines 299-303, and the return of do_search
WarnAndReturn ==
  /\ spc = "warn"
  /\ warned' = NoneSelected(how_many)
  /\ spc' = "returned"
  /\ UNCHANGED attempts
  /\ UNCHANGED <<num_modes, energy_range, out_cont, ri, rpc, rp, nc_slope,
                 slope_orig, refined, how_many, remarks, outfile, events>>

(* ============ main(): its branches and the calls of main_procedure ====== *)
\* most job turns one process takes in a batch branch
MaxJobs == 2

VARIABLES
  score_only,      \* option --score_only
  local_only,      \* option --local_only
  randomize_only,  \* option --randomize_only
  mainpc,          \* where this process is in main()
  entered,         \* the branches of main() this process entered, in order
  role,            \* what fork() or the MPI rank made of this process
  jobs,            \* the job turns this process took
  templateModel,   \* the receptor model built once for the branch
  job_m,           \* the model of the job in hand
  mppc,            \* where the call of main_procedure is
  grid,            \* the cache c of main_procedure
  trace            \* the jobs this process ran and the grids it populated

modes == <<score_only, local_only, randomize_only>>

mainVars == <<modes, mainpc, entered, role, jobs, templateModel, job_m, mppc,
              grid, trace>>

\* a model: the receptor, the ligands appended to it, and whether the
\* pipeline has set a conformation on it
NoModel == [built |-> FALSE, ligands |-> <<>>, moved |-> FALSE]

\* parse_bundle_partial_screening(*rigid_name_opt): the receptor alone
Receptor == [built |-> TRUE, ligands |-> <<>>, moved |-> FALSE]

\* m->append(parse_ligand_pdbqt(...)) of the ligand of job k
Appended(mdl, k) == [mdl EXCEPT !.ligands = Append(@, k)]

\* m.set(...), m.write_...: main_procedure works on the model it is given
Moved(mdl) == [mdl EXCEPT !.moved = TRUE]

\* a job that works on the template itself: model* m = &templateModel
ModelIsShared == FALSE

\* model* m = new model(templateModel): the job has a copy of its own
ModelIsCopied == TRUE

\* the template, after the model of the job in hand became mdl
TemplateBeside(t, mdl) == IF ModelIsCopied THEN t ELSE mdl

\* the model a job starts from
NewModel(t) == t

\* a farm branch that every batch run enters
FarmBranchAnyBatch(batch, mpi) == batch

\* if(batchMode == true && use_mpi_parallelism == false)
BatchBranch(batch, mpi) == batch /\ ~mpi

\* if(batchMode == true && use_mpi_parallelism == true)
FarmBranch(batch, mpi) == batch /\ mpi

\* if(batchMode == false && use_mpi_parallelism == false)
SingleBranch(batch, mpi) == ~batch /\ ~mpi

\* every call site passes no_cache == false
no_cache == FALSE

\* a grid for every run that is not score-only or randomize-only
cache_needed_for_local(s, l, r) == ~(s \/ r)

\* bool cache_needed = !(score_only || randomize_only || local_only);
cache_needed(s, l, r) == ~(s \/ r \/ l)

\* the branch of do_search that runs
SearchMode(s, l) == IF s THEN "score" ELSE IF l THEN "local" ELSE "search"

\* main() has parsed its options
MainStart ==
  /\ score_only \in BOOLEAN
  /\ local_only \in BOOLEAN
  /\ randomize_only \in BOOLEAN
  /\ mainpc = "test_batch"
  /\ entered = <<>>
  /\ role = "main"
  /\ jobs = 0
  /\ templateModel = NoModel
  /\ job_m = NoModel
  /\ mppc = "out"
  /\ grid = "none"
  /\ trace = <<>>

\* main() is not followed at this level
MainOff ==
  /\ score_only = FALSE
  /\ local_only = FALSE
  /\ randomize_only = FALSE
  /\ mainpc = "off"
  /\ entered = <<>>
  /\ role = "main"
  /\ jobs = 0
  /\ templateModel = NoModel
  /\ job_m = NoModel
  /\ mppc = "out"
  /\ grid = "none"
  /\ trace = <<>>

\* the test of line 737 and, when it holds, the template of line 746
TestBatch ==
  /\ mainpc = "test_batch"
  /\ IF BatchBranch(batchMode, use_mpi_parallelism)
     THEN /\ mainpc' = "batch"
          /\ entered' = Append(entered, "batch")
          /\ templateModel' = Receptor
     ELSE /\ mainpc' = "test_farm"
          /\ UNCHANGED <<entered, templateModel>>
  /\ UNCHANGED <<input, modes, role, jobs, job_m, mppc, grid, trace>>

\* a turn of the batch loop that finds the end of the jobs: break
BatchLoopEnd ==
  /\ mainpc = "batch"
  /\ mppc = "out"
  /\ mainpc' = "test_farm"
  /\ UNCHANGED <<input, modes, entered, role, jobs, templateModel, job_m, mppc,
                 grid, trace>>

\* what fork() returns in this process: 0, a pid, or -1
ForkReturns == {"child", "parent", "failed"}

\* a turn of the batch loop that read a job line: the copy of the template,
\* fork() when asked for, and the try block up to the call of main_procedure
BatchJob(pid, parsed) ==
  /\ mainpc = "batch"
  /\ mppc = "out"
  /\ jobs < MaxJobs
  /\ jobs' = jobs + 1
  /\ pid \in IF use_fork_parallelism THEN ForkReturns ELSE {"none"}
  /\ role' = IF pid = "child" THEN "child" ELSE role
  /\ IF pid = "parent"
     THEN /\ parsed
          /\ UNCHANGED <<mainpc, templateModel, job_m, mppc, trace>>
     ELSE IF pid = "failed"
     THEN /\ parsed
          /\ mainpc' = "end"
          /\ UNCHANGED <<templateModel, job_m, mppc, trace>>
     ELSE IF parsed
     THEN /\ job_m' = Appended(NewModel(templateModel), jobs')
          /\ templateModel' = TemplateBeside(templateModel, job_m')
          /\ mppc' = "setup"
          /\ trace' = Append(trace, "job")
          /\ UNCHANGED mainpc
     ELSE /\ mainpc' = IF pid = "child" THEN "test_farm" ELSE "batch"
          /\ UNCHANGED <<templateModel, job_m, mppc, trace>>
  /\ UNCHANGED <<input, modes, entered, grid>>

\* main_procedure, lines 314-343: the scoring function, then the test of
\* randomize_only
MpSetup ==
  /\ mppc = "setup"
  /\ mppc' = IF randomize_only THEN "randomize" ELSE "nc"
  /\ UNCHANGED <<input, modes, mainpc, entered, role, jobs, templateModel, job_m,
                 grid, trace>>

\* do_randomization(m, ...), which returns or throws
MpRandomize(ok) ==
  /\ mppc = "randomize"
  /\ job_m' = Moved(job_m)
  /\ templateModel' = IF templateModel.built
                      THEN TemplateBeside(templateModel, job_m')
                      ELSE templateModel
  /\ mppc' = IF ok THEN "returned" ELSE "thrown"
  /\ UNCHANGED <<input, modes, mainpc, entered, role, jobs, grid, trace>>

\* non_cache nc, nc_widened; with no_cache do_search is called on them
MpNonCache ==
  /\ mppc = "nc"
  /\ mppc' = IF no_cache THEN "search" ELSE "cache"
  /\ UNCHANGED <<input, modes, mainpc, entered, role, jobs, templateModel, job_m,
                 grid, trace>>

\* cache c(...); if(cache_needed) c.populate(...)
MpCache ==
  /\ mppc = "cache"
  /\ IF cache_needed(score_only, local_only, randomize_only)
     THEN /\ grid' = "populated"
          /\ trace' = Append(trace, "populate")
     ELSE /\ grid' = "built"
          /\ UNCHANGED trace
  /\ mppc' = "search"
  /\ UNCHANGED <<input, modes, mainpc, entered, role, jobs, templateModel,
                 job_m>>

\* do_search(m, ...), which returns or throws
MpDoSearch(ok) ==
  /\ mppc = "search"
  /\ job_m' = Moved(job_m)
  /\ templateModel' = IF templateModel.built
                      THEN TemplateBeside(templateModel, job_m')
                      ELSE templateModel
  /\ trace' = Append(trace, SearchMode(score_only, local_only))
  /\ mppc' = IF ok THEN "returned" ELSE "thrown"
  /\ UNCHANGED <<input, modes, mainpc, entered, role, jobs, grid>>

\* back in the batch loop, from the call or from the catch: a child breaks,
\* the others go on with the loop
BatchJobDone ==
  /\ mainpc = "batch"
  /\ mppc \in {"returned", "thrown"}
  /\ mppc' = "out"
  /\ grid' = "none"
  /\ job_m' = NoModel
  /\ mainpc' = IF role = "child" THEN "test_farm" ELSE "batch"
  /\ UNCHANGED <<input, modes, entered, role, jobs, templateModel, trace>>

\* what MPI makes of this process: the only rank of its world, rank 0, or
\* another rank
MpiRanks == {"alone", "governor", "worker"}

\* the test of line 855; a world of one rank returns -1, otherwise the rank
\* decides between governor and worker, and the worker builds its template
TestFarm(rank) ==
  /\ mainpc = "test_farm"
  /\ IF FarmBranch(batchMode, use_mpi_parallelism)
     THEN /\ mainpc' = IF rank = "alone" THEN "end" ELSE "farm"
          /\ entered' = Append(entered, "farm")
          /\ role' = rank
          /\ templateModel' = IF rank = "worker" THEN Receptor
                              ELSE templateModel
     ELSE /\ rank = "worker"
          /\ mainpc' = "test_single"
          /\ UNCHANGED <<entered, role, templateModel>>
  /\ UNCHANGED <<input, modes, jobs, job_m, mppc, grid, trace>>

\* the governor has drained its workers: MPI_Finalize
GovernorDone ==
  /\ mainpc = "farm"
  /\ role = "governor"
  /\ mainpc' = "test_single"
  /\ UNCHANGED <<input, modes, entered, role, jobs, templateModel, job_m, mppc,
                 grid, trace>>

\* if(infile.is_open() == false) return -1;
WorkerNoFile ==
  /\ mainpc = "farm"
  /\ role = "worker"
  /\ mppc = "out"
  /\ jobs = 0
  /\ mainpc' = "end"
  /\ UNCHANGED <<input, modes, entered, role, jobs, templateModel, job_m, mppc,
                 grid, trace>>

\* a turn of the worker loop that receives the end signal: break
WorkerLoopEnd ==
  /\ mainpc = "farm"
  /\ role = "worker"
  /\ mppc = "out"
  /\ mainpc' = "test_single"
  /\ UNCHANGED <<input, modes, entered, role, jobs, templateModel, job_m, mppc,
                 grid, trace>>

\* a turn of the worker loop that receives an assignment: the copy of the
\* template and the try block up to the call of main_procedure
WorkerJob(parsed) ==
  /\ mainpc = "farm"
  /\ role = "worker"
  /\ mppc = "out"
  /\ jobs < MaxJobs
  /\ jobs' = jobs + 1
  /\ IF parsed
     THEN /\ job_m' = Appended(NewModel(templateModel), jobs')
          /\ templateModel' = TemplateBeside(templateModel, job_m')
          /\ mppc' = "setup"
          /\ trace' = Append(trace, "job")
     ELSE UNCHANGED <<templateModel, job_m, mppc, trace>>
  /\ UNCHANGED <<input, modes, mainpc, entered, role, grid>>

\* back in the worker loop, from the call or from the catch: delete m
WorkerJobDone ==
  /\ mainpc = "farm"
  /\ mppc \in {"returned", "thrown"}
  /\ mppc' = "out"
  /\ grid' = "none"
  /\ job_m' = NoModel
  /\ UNCHANGED <<input, modes, mainpc, entered, role, jobs, templateModel,
                 trace>>

\* the test of line 1102
TestSingle ==
  /\ mainpc = "test_single"
  /\ IF SingleBranch(batchMode, use_mpi_parallelism)
     THEN /\ mainpc' = "single"
          /\ entered' = Append(entered, "single")
     ELSE /\ mainpc' = "end"
          /\ UNCHANGED entered
  /\ UNCHANGED <<input, modes, role, jobs, templateModel, job_m, mppc, grid,
                 trace>>

\* model m = parse_bundle(rigid, flex, ligand), which may throw, and the call
\* of main_procedure
SingleJob(parsed) ==
  /\ mainpc = "single"
  /\ mppc = "out"
  /\ jobs = 0
  /\ jobs' = 1
  /\ IF parsed
     THEN /\ job_m' = Appended(Receptor, jobs')
          /\ mppc' = "setup"
          /\ trace' = Append(trace, "job")
          /\ UNCHANGED mainpc
     ELSE /\ mainpc' = "end"
          /\ UNCHANGED <<job_m, mppc, trace>>
  /\ UNCHANGED <<input, modes, entered, role, templateModel, grid>>

\* main_procedure returned, or threw into the handlers of main()
SingleJobDone ==
  /\ mainpc = "single"
  /\ mppc \in {"returned", "thrown"}
  /\ mppc' = "out"
  /\ grid' = "none"
  /\ job_m' = NoModel
  /\ mainpc' = "end"
  /\ UNCHANGED <<input, modes, entered, role, jobs, templateModel, trace>>

(* ============================ the MPI farm ============================= *)
VARIABLES
  world_size,               \* MPI_Comm_size
  readable,                 \* per rank: can this rank open the job file
  gpc,                      \* where the governor (rank 0) is
  ginfile,                  \* the governor's std::ifstream
  count,                    \* the governor's line counter
  ga,                       \* draws made from the governor's rng
  rank_list,                \* per rank, the send buffer r
  j,                        \* the index of the drain loop
  end_code,                 \* the governor's end_code[3]
  toGov,                    \* per worker, its want_data messages in flight
  toWorker,                 \* per worker, the governor's messages in flight
  wpc,                      \* per worker, where it is
  winfile,                  \* per worker, its std::ifstream
  local_processed_counter,  \* per worker
  recv,                     \* per worker, its recv[3]
  sendLog,                  \* every message the governor sent, in order
  readyLog,                 \* every message the governor received, in order
  recvLog,                  \* per worker, every message it received
  runLog                    \* per worker, every pipeline invocation it made

farmInput == <<world_size, readable>>

govVars == <<gpc, ginfile, count, ga, rank_list, j, end_code, readyLog>>

workerVars == <<wpc, winfile, local_processed_counter, recv>>

farmVars == <<farmInput, govVars, workerVars, toGov, toWorker, sendLog,
              recvLog, runLog>>

vars == <<input, batchVars, farmVars, searchVars, mainVars>>

Ranks == 0..(world_size - 1)
Workers == 1..(world_size - 1)

\* what an int that was never assigned may hold
UninitInts == {0, 1}

\* int end_code[3]; end_code[1] = -1;
EndCodes == {<<x, -1, y>> : x, y \in UninitInts}

\* the send buffer of a rank before anything was stored in it, and after
\* delete
NewBuffer == [alloc |-> TRUE, r |-> <<>>]
Deleted(buf) == [buf EXCEPT !.alloc = FALSE]

\* the MPI branch is entered with at least two ranks; the governor has made
\* its rank_list and the first draw from its rng, every worker has
\* constructed its ifstream
FarmStart ==
  /\ world_size \in 2..MaxWorldSize
  /\ readable \in [Ranks -> BOOLEAN]
  /\ gpc = "main"
  /\ ginfile = OpenStream(readable[0])
  /\ count = 0
  /\ ga = 1
  /\ rank_list = [r \in Ranks |-> NewBuffer]
  /\ j = 0
  /\ end_code = <<>>
  /\ toGov = [w \in Workers |-> <<>>]
  /\ toWorker = [w \in Workers |-> <<>>]
  /\ wpc = [w \in Workers |-> "open"]
  /\ winfile = [w \in Workers |-> OpenStream(readable[w])]
  /\ local_processed_counter = [w \in Workers |-> 0]
  /\ recv = [w \in Workers |-> <<>>]
  /\ sendLog = <<>>
  /\ readyLog = <<>>
  /\ recvLog = [w \in Workers |-> <<>>]
  /\ runLog = [w \in Workers |-> <<>>]

\* if (infile.eof() || path == "" || path.find_first_not_of(...) == npos)
EndOfBatchFile(s, str) == s.eof \/ str = <<>> \/ AllWhitespace(str)

\* a drain loop that starts at rank 2
DrainFromSecond == 1 + 1

\* for(int j = 1; j < rank_list.size(); j++)
DrainFirst == 1

\* a governor that stores every tuple in the buffer of rank 1
BufferOfFirst(worker_idx) == 1

\* rank_list[worker_idx].r: each rank has a buffer of its own
BufferOf(worker_idx) == worker_idx

\* one turn of the governor's main loop: the seed, tellg and count are
\* taken, MPI_Recv from any source returns worker w's request, the tuple is
\* stored in w's buffer and sent with MPI_Isend, then the next line is read
GovAssign(w) ==
  /\ gpc = "main"
  /\ toGov[w] # <<>>
  /\ LET gseed == ga + 1
         seek_offset == TellG(ginfile)
         ligand_nbr == count
         r == <<gseed, seek_offset, ligand_nbr>>
         g == GetLine(ginfile, jobfile)
     IN /\ ga' = gseed
        /\ toGov' = [toGov EXCEPT ![w] = Tail(@)]
        /\ readyLog' = Append(readyLog, [from |-> w, n |-> Head(toGov[w])])
        /\ rank_list' = [rank_list EXCEPT ![BufferOf(w)].r = r]
        /\ toWorker' = [toWorker EXCEPT ![w] = Append(@, r)]
        /\ sendLog' = Append(sendLog, [to |-> w, r |-> r, loop |-> "main"])
        /\ ginfile' = g.s
        /\ count' = count + 1
        /\ IF EndOfBatchFile(g.s, g.str)
           THEN /\ gpc' = "drain"
                /\ j' = DrainFirst
                /\ end_code' \in EndCodes
           ELSE UNCHANGED <<gpc, j, end_code>>
  /\ UNCHANGED <<input, batchVars, searchVars, mainVars, farmInput, workerVars, recvLog, runLog>>

\* one turn of the drain loop: MPI_Recv from rank j, MPI_Send of end_code
\* to rank j, delete of j's buffer
GovDrain ==
  /\ gpc = "drain"
  /\ j < world_size
  /\ toGov[j] # <<>>
  /\ toGov' = [toGov EXCEPT ![j] = Tail(@)]
  /\ readyLog' = Append(readyLog, [from |-> j, n |-> Head(toGov[j])])
  /\ toWorker' = [toWorker EXCEPT ![j] = Append(@, end_code)]
  /\ sendLog' = Append(sendLog, [to |-> j, r |-> end_code, loop |-> "drain"])
  /\ rank_list' = [rank_list EXCEPT ![j] = Deleted(@)]
  /\ j' = j + 1
  /\ UNCHANGED <<input, batchVars, searchVars, mainVars, farmInput, gpc, ginfile, count, ga,
                 end_code, workerVars, recvLog, runLog>>

\* after the drain loop: delete rank_list[0].r, MPI_Finalize
GovFinish ==
  /\ gpc = "drain"
  /\ j >= world_size
  /\ rank_list' = [rank_list EXCEPT ![0] = Deleted(@)]
  /\ gpc' = "done"
  /\ UNCHANGED <<input, batchVars, searchVars, mainVars, farmInput, ginfile, count, ga, j,
                 end_code, readyLog, workerVars, toGov, toWorker, sendLog,
                 recvLog, runLog>>

\* if(infile.is_open() == false) return -1;
WorkerOpen(w) ==
  /\ wpc[w] = "open"
  /\ wpc' = [wpc EXCEPT ![w] = IF winfile[w].open THEN "send" ELSE "returned"]
  /\ UNCHANGED <<input, batchVars, searchVars, mainVars, farmInput, govVars, winfile,
                 local_processed_counter, recv, toGov, toWorker, sendLog,
                 recvLog, runLog>>

\* a worker that sends its next ready message without waiting for the answer
AfterReadyNoWait == "send"

\* after MPI_Send the worker blocks in MPI_Recv from the governor
AfterReady == "recv"

\* MPI_Send(&local_processed_counter, ...) to the governor
WorkerReady(w) ==
  /\ wpc[w] = "send"
  /\ toGov' = [toGov EXCEPT ![w] = Append(@, local_processed_counter[w])]
  /\ wpc' = [wpc EXCEPT ![w] = AfterReady]
  /\ UNCHANGED <<input, batchVars, searchVars, mainVars, farmInput, govVars, winfile,
                 local_processed_counter, recv, toWorker, sendLog, recvLog,
                 runLog>>

\* the element of recv that carries the offset, and the end signal in it
OffsetOf(r) == r[2]
EndSignal == -1

\* a test of the wrong element: if(recv[0] == -1)
IsSentinelOnSeed(r) == r[1] = EndSignal

\* if(recv[1] == -1)
IsSentinel(r) == OffsetOf(r) = EndSignal

\* MPI_Recv(&recv, ...) from the governor and the test for the end signal
WorkerRecv(w) ==
  /\ wpc[w] = "recv"
  /\ toWorker[w] # <<>>
  /\ LET r == Head(toWorker[w])
     IN /\ recv' = [recv EXCEPT ![w] = r]
        /\ recvLog' = [recvLog EXCEPT ![w] = Append(@, r)]
        /\ wpc' = [wpc EXCEPT ![w] = IF IsSentinel(r) THEN "exited" ELSE "work"]
  /\ toWorker' = [toWorker EXCEPT ![w] = Tail(@)]
  /\ UNCHANGED <<input, batchVars, searchVars, mainVars, farmInput, govVars, winfile,
                 local_processed_counter, toGov, sendLog, runLog>>

\* a catch handler that forgets the counter
CounterAfterSuccessOnly(c, ok) == IF ok THEN c + 1 ELSE c

\* local_processed_counter++ on both paths out of the try
CounterAfter(c, ok) == c + 1

\* infile.seekg(recv[1]); std::getline(infile, path); the pipeline in its
\* try/catch; the counter
WorkerRun(w, ok) ==
  /\ wpc[w] = "work"
  /\ LET s == SeekG(winfile[w], OffsetOf(recv[w]))
         g == GetLine(s, jobfile)
     IN /\ ok \in Outcomes(g.str)
        /\ winfile' = [winfile EXCEPT ![w] = g.s]
        /\ runLog' = [runLog EXCEPT ![w] =
                        Append(@, [r |-> recv[w], at |-> s.pos, good |-> Good(s),
                                   path |-> g.str])]
  /\ local_processed_counter' =
       [local_processed_counter EXCEPT ![w] = CounterAfter(@, ok)]
  /\ wpc' = [wpc EXCEPT ![w] = "send"]
  /\ UNCHANGED <<input, batchVars, searchVars, mainVars, farmInput, govVars, recv, toGov, toWorker,
                 sendLog, recvLog>>

GovStep ==
  \/ \E w \in Workers : GovAssign(w)
  \/ GovDrain
  \/ GovFinish

WorkerStep(w) ==
  /\ w \in Workers
  /\ \/ WorkerOpen(w)
     \/ WorkerReady(w)
     \/ WorkerRecv(w)
     \/ \E ok \in BOOLEAN : WorkerRun(w, ok)

\* the MPI branch is not taken
FarmOff ==
  /\ world_size = 1
  /\ readable = <<>>
  /\ gpc = "off"
  /\ ginfile = OpenStream(FALSE)
  /\ count = 0
  /\ ga = 0
  /\ rank_list = <<>>
  /\ j = 0
  /\ end_code = <<>>
  /\ toGov = <<>>
  /\ toWorker = <<>>
  /\ wpc = <<>>
  /\ winfile = <<>>
  /\ local_processed_counter = <<>>
  /\ recv = <<>>
  /\ sendLog = <<>>
  /\ readyLog = <<>>
  /\ recvLog = <<>>
  /\ runLog = <<>>

(* ========================== the specifications ========================= *)
\* --batch without --mpi: the sequential / fork batch loop
InitBatch ==
  /\ jobfile \in JobFiles(MaxBatchFile)
  /\ batchMode = TRUE
  /\ use_mpi_parallelism = FALSE
  /\ use_fork_parallelism \in BOOLEAN
  /\ maxNbrOfFork \in ForkNbrs
  /\ BatchStart
  /\ FarmOff
  /\ SearchOff
  /\ MainOff

NextBatch ==
  \/ ReadJob /\ UNCHANGED <<farmVars, searchVars, mainVars>>
  \/ ForkParent /\ UNCHANGED <<farmVars, searchVars, mainVars>>
  \/ ForkFailed /\ UNCHANGED <<farmVars, searchVars, mainVars>>
  \/ \E c \in 1..Len(child) : AdmitWait(c) /\ UNCHANGED <<farmVars, searchVars, mainVars>>
  \/ \E c \in 1..Len(child) : DrainWait(c) /\ UNCHANGED <<farmVars, searchVars, mainVars>>
  \/ LeaveLoop /\ UNCHANGED <<farmVars, searchVars, mainVars>>
  \/ \E c \in 1..Len(child), ok \in BOOLEAN : ChildRun(c, ok) /\ UNCHANGED <<farmVars, searchVars, mainVars>>
  \/ \E ok \in BOOLEAN : ParentRun(ok) /\ UNCHANGED <<farmVars, searchVars, mainVars>>

BatchSpec == InitBatch /\ [][NextBatch]_vars

\* --batch --mpi: the farm; the fork options are parsed and not used
InitFarm ==
  /\ jobfile \in JobFiles(MaxFarmFile)
  /\ batchMode = TRUE
  /\ use_mpi_parallelism = TRUE
  /\ use_fork_parallelism = FALSE
  /\ maxNbrOfFork = 1
  /\ BatchOff
  /\ FarmStart
  /\ SearchOff
  /\ MainOff

NextFarm ==
  \/ \E w \in Workers : GovAssign(w)
  \/ GovDrain
  \/ GovFinish
  \/ \E w \in Workers : WorkerOpen(w)
  \/ \E w \in Workers : WorkerReady(w)
  \/ \E w \in Workers : WorkerRecv(w)
  \/ \E w \in Workers, ok \in BOOLEAN : WorkerRun(w, ok)

FarmSpec == InitFarm /\ [][NextFarm]_vars

\* every rank is a process of its own that keeps running, and a pipeline
\* invocation returns or throws: no rank that can take a step waits forever
InitFarmShort == InitFarm /\ Len(jobfile) <= MaxLiveFile

FarmFairSpec ==
  /\ InitFarmShort
  /\ [][NextFarm]_vars
  /\ WF_vars(GovStep)
  /\ \A w \in 1..(MaxWorldSize - 1) : WF_vars(WorkerStep(w))

\* one ligand, neither --batch nor --mpi, in search mode: main_procedure
\* calls do_search once
InitSearch ==
  /\ jobfile = <<>>
  /\ batchMode = FALSE
  /\ use_mpi_parallelism = FALSE
  /\ use_fork_parallelism = FALSE
  /\ maxNbrOfFork = 1
  /\ BatchOff
  /\ FarmOff
  /\ SearchStart
  /\ MainOff

NextSearch ==
  \/ Search /\ UNCHANGED <<input, batchVars, farmVars, mainVars>>
  \/ RefineEnter /\ UNCHANGED <<input, batchVars, farmVars, mainVars>>
  \/ \E res \in Poses : RefineAttempt(res) /\ UNCHANGED <<input, batchVars, farmVars, mainVars>>
  \/ RefineLeave /\ UNCHANGED <<input, batchVars, farmVars, mainVars>>
  \/ RefineDone /\ UNCHANGED <<input, batchVars, farmVars, mainVars>>
  \/ SortPool /\ UNCHANGED <<input, batchVars, farmVars, mainVars>>
  \/ Rescore /\ UNCHANGED <<input, batchVars, farmVars, mainVars>>
  \/ ResortPool /\ UNCHANGED <<input, batchVars, farmVars, mainVars>>
  \/ Dedup /\ UNCHANGED <<input, batchVars, farmVars, mainVars>>
  \/ Select /\ UNCHANGED <<input, batchVars, farmVars, mainVars>>
  \/ WriteOutput /\ UNCHANGED <<input, batchVars, farmVars, mainVars>>
  \/ WarnAndReturn /\ UNCHANGED <<input, batchVars, farmVars, mainVars>>

SearchSpec == InitSearch /\ [][NextSearch]_vars

\* the pools remove_redundant can be handed: sorted, the poses outside the
\* box holding the sentinel and those inside a finite energy
CuratedPoses ==
  {Pose(c, e) : c \in Box, e \in Energies} \cup {Pose(0, max_fl)}

SortedPools ==
  {pool \in UNION {[1..n -> CuratedPoses] : n \in 0..MaxDedupPool} :
     NonDecreasing(pool)}

\* remove_redundant on its own: do_search at line 262, with any sorted pool;
\* refined keeps the length of the pool that went in
InitDedup ==
  /\ jobfile = <<>>
  /\ batchMode = FALSE
  /\ use_mpi_parallelism = FALSE
  /\ use_fork_parallelism = FALSE
  /\ maxNbrOfFork = 1
  /\ BatchOff
  /\ FarmOff
  /\ MainOff
  /\ num_modes = 1
  /\ energy_range = 0
  /\ spc = "dedup"
  /\ out_cont \in SortedPools
  /\ ri = 0
  /\ rpc = "out"
  /\ rp = 0
  /\ nc_slope = slope
  /\ slope_orig = slope
  /\ refined = [k \in 1..Len(out_cont) |-> 1]
  /\ how_many = 0
  /\ remarks = <<>>
  /\ outfile = [written |-> FALSE, models |-> <<>>]
  /\ warned = FALSE
  /\ events = <<>>
  /\ attempts = <<>>

NextDedup == Dedup /\ UNCHANGED <<input, batchVars, farmVars, mainVars>>

DedupSpec == InitDedup /\ [][NextDedup]_vars

\* one process in main(), from the first branch test to the end, with any
\* switches and any mode flags
InitMain ==
  /\ jobfile = <<>>
  /\ batchMode \in BOOLEAN
  /\ use_mpi_parallelism \in BOOLEAN
  /\ use_fork_parallelism \in BOOLEAN
  /\ maxNbrOfFork = 1
  /\ BatchOff
  /\ FarmOff
  /\ SearchOff
  /\ MainStart

NextMain ==
  \/ TestBatch /\ UNCHANGED <<batchVars, farmVars, searchVars>>
  \/ BatchLoopEnd /\ UNCHANGED <<batchVars, farmVars, searchVars>>
  \/ \E pid \in ForkReturns \cup {"none"}, parsed \in BOOLEAN :
       BatchJob(pid, parsed) /\ UNCHANGED <<batchVars, farmVars, searchVars>>
  \/ BatchJobDone /\ UNCHANGED <<batchVars, farmVars, searchVars>>
  \/ \E rank \in MpiRanks :
       TestFarm(rank) /\ UNCHANGED <<batchVars, farmVars, searchVars>>
  \/ GovernorDone /\ UNCHANGED <<batchVars, farmVars, searchVars>>
  \/ WorkerNoFile /\ UNCHANGED <<batchVars, farmVars, searchVars>>
  \/ WorkerLoopEnd /\ UNCHANGED <<batchVars, farmVars, searchVars>>
  \/ \E parsed \in BOOLEAN :
       WorkerJob(parsed) /\ UNCHANGED <<batchVars, farmVars, searchVars>>
  \/ WorkerJobDone /\ UNCHANGED <<batchVars, farmVars, searchVars>>
  \/ TestSingle /\ UNCHANGED <<batchVars, farmVars, searchVars>>
  \/ \E parsed \in BOOLEAN :
       SingleJob(parsed) /\ UNCHANGED <<batchVars, farmVars, searchVars>>
  \/ SingleJobDone /\ UNCHANGED <<batchVars, farmVars, searchVars>>
  \/ MpSetup /\ UNCHANGED <<batchVars, farmVars, searchVars>>
  \/ \E ok \in BOOLEAN :
       MpRandomize(ok) /\ UNCHANGED <<batchVars, farmVars, searchVars>>
  \/ MpNonCache /\ UNCHANGED <<batchVars, farmVars, searchVars>>
  \/ MpCache /\ UNCHANGED <<batchVars, farmVars, searchVars>>
  \/ \E ok \in BOOLEAN :
       MpDoSearch(ok) /\ UNCHANGED <<batchVars, farmVars, searchVars>>

MainSpec == InitMain /\ [][NextMain]_vars


(* ===================== the job file, as the spec reads it ============== *)
\* the offsets at which a line of the file starts
LineStarts(file) == {p \in 0..(Len(file) - 1) : p = 0 \/ file[p] = NL}

\* the index of the newline that ends the line starting at p, or one past
\* the end of the file when no newline follows
LineEnd(file, p) ==
  LET nls == {q \in (p + 1)..Len(file) : file[q] = NL}
  IN IF nls = {} THEN Len(file) + 1 ELSE MinOf(nls)

LineAt(file, p) == SubSeq(file, p + 1, LineEnd(file, p) - 1)

Terminated(file, p) == LineEnd(file, p) <= Len(file)

IsEmpty(str) == str = <<>>

\* the ligand lines: the lines before the first blank line or the end of the
\* file, under a given notion of blank
LigandLines(file, Blank(_)) ==
  {p \in LineStarts(file) :
     \A q \in LineStarts(file) : q <= p => ~Blank(LineAt(file, q))}

\* the elements of a finite set of numbers in increasing order
RECURSIVE Ascending(_)
Ascending(S) ==
  IF S = {} THEN <<>> ELSE <<MinOf(S)>> \o Ascending(S \ {MinOf(S)})

\* the lines of a set of line starts, in file order
LinesIn(file, starts) ==
  LET o == Ascending(starts)
  IN [k \in 1..Len(o) |-> LineAt(file, o[k])]

\* the paths of the pipeline invocations of a batch run, in dispatch order
Jobs == IF use_fork_parallelism THEN child ELSE runs
Dispatched == [k \in 1..Len(Jobs) |-> Jobs[k].path]

(* ============================ fork batch mode ========================== *)
\* C1: in fork batch mode with fan-out N >= 1, in every reachable state the
\* number of spawned children the parent has not yet reaped is at most N.
FanOutBound ==
  (use_fork_parallelism /\ maxNbrOfFork >= 1)
    => Cardinality(Unreaped) <= maxNbrOfFork

\* the pool is full: N = MaxFork children are running at once
FanOutFull ==
  /\ use_fork_parallelism
  /\ maxNbrOfFork = MaxFork
  /\ Cardinality(Unreaped) = maxNbrOfFork
  /\ \A c \in Unreaped : child[c].state = "running"
  /\ ppc = "admit"

\* C6: in fork batch mode, in the state where the parent has left the batch
\* loop at the end of the jobs, every child it spawned has terminated and
\* been waited for: no child is outstanding and the pid queue is empty.
DrainedAtExit ==
  (use_fork_parallelism /\ ppc = "done")
    => (Unreaped = {} /\ pid_queue = <<>>)

\* three jobs with fan-out 2: the parent left the loop, and the child that
\* was still outstanding at end of jobs was reaped by the drain loop
DrainedThreeJobs ==
  /\ use_fork_parallelism
  /\ maxNbrOfFork = 2
  /\ ppc = "done"
  /\ Len(child) = 3

\* C7: in fork batch mode with fan-out N >= 1, when the parent has left the
\* batch loop exactly n children were spawned, one per ligand line of the job
\* file and in file order, n being the number of ligand lines.
FanOutCompleteness ==
  (use_fork_parallelism /\ maxNbrOfFork >= 1 /\ ppc = "done")
    => Dispatched = LinesIn(jobfile, LigandLines(jobfile, IsEmpty))

\* C8: fan-out admission is FIFO: the wait of the admission test returns, and
\* the parent goes on to read the next job, only when the child at the head of
\* the pid queue has terminated, and the pid popped is that of the child waited
\* for.
FifoAdmission ==
  [][(ppc = "admit" /\ ppc' = "read")
       => child'[Head(pid_queue)].state = "reaped"]_vars

\* the lines the batch loop dispatches: the newline-terminated lines before
\* the first empty line
Dispatchable(file) ==
  {p \in LigandLines(file, IsEmpty) : Terminated(file, p)}

\* C9: a failing pipeline invocation does not abort the batch run: the only
\* early return of the loop is the spawn failure (status 10, fork mode), and a
\* parent that has left the loop has dispatched every line the loop
\* enumerates, once each and in order, whichever of the jobs failed.
JobFailureIsolated ==
  /\ ppc = "returned" => (use_fork_parallelism /\ rc = 10)
  /\ ppc = "done" => Dispatched = LinesIn(jobfile, Dispatchable(jobfile))

\* a run that went to the end although a job failed and a later job succeeded
FailedJobThenMore ==
  /\ ppc = "done"
  /\ \E k \in 1..Len(Jobs) : \E m \in (k + 1)..Len(Jobs) :
       /\ ~Jobs[k].ok
       /\ Jobs[m].ok

(* ================================ the farm ============================= *)
\* the sends of the governor that are not the end signal, and those that are
Assignments == {k \in 1..Len(sendLog) : ~IsSentinel(sendLog[k].r)}
Sentinels == {k \in 1..Len(sendLog) : IsSentinel(sendLog[k].r)}

\* the governor has shut down and every worker has left its loop
FarmDone == gpc = "done" /\ \A w \in Workers : wpc[w] = "exited"

\* every rank can open the job file
FilesReadable == \A r \in Ranks : readable[r]

\* a path the pipeline cannot but throw on
MustThrow(p) == Outcomes(p) = {FALSE}

\* C2: over a whole run the governor sends exactly n assignments, n being the
\* number of non-blank ligand lines of the job file, and exactly W end
\* signals: n + W sends in all.
FarmSendCount ==
  gpc = "done"
    => /\ Cardinality(Assignments)
            = Cardinality(LigandLines(jobfile, AllWhitespace))
       /\ Cardinality(Sentinels) = world_size - 1
       /\ Len(sendLog)
            = Cardinality(LigandLines(jobfile, AllWhitespace)) + world_size - 1

\* the sends that carry the offset p, and the pipeline invocations made for it
SendsOf(p) == {k \in 1..Len(sendLog) : OffsetOf(sendLog[k].r) = p}
RunsOf(p) ==
  UNION {{<<w, k>> : k \in {m \in 1..Len(runLog[w]) :
                                OffsetOf(runLog[w][m].r) = p}} : w \in Workers}

\* C3: each ligand line of the job file is processed exactly once: at any
\* time its offset has been sent at most once and at most one pipeline
\* invocation has been made for it, by the worker the offset was sent to, on
\* the path read at that offset; when the farm has shut down, exactly once.
ExactlyOnce ==
  \A p \in LigandLines(jobfile, AllWhitespace) :
    /\ Cardinality(SendsOf(p)) <= 1
    /\ Cardinality(RunsOf(p)) <= 1
    /\ \A wk \in RunsOf(p) :
         LET run == runLog[wk[1]][wk[2]]
         IN /\ run.good /\ run.at = p
            /\ run.path = LineAt(jobfile, p)
            /\ \E k \in SendsOf(p) : sendLog[k].to = wk[1]
    /\ FarmDone => (Cardinality(SendsOf(p)) = 1 /\ Cardinality(RunsOf(p)) = 1)

\* the farm has shut down after two ligand lines went to two workers
TwoLinesTwoWorkers ==
  /\ FarmDone
  /\ Cardinality(LigandLines(jobfile, AllWhitespace)) = 2
  /\ \E p, q \in LigandLines(jobfile, AllWhitespace) :
       /\ p # q
       /\ \E k \in SendsOf(p), m \in SendsOf(q) : sendLog[k].to # sendLog[m].to

\* the end signals a worker has received
SentinelsGot(w) == {k \in 1..Len(recvLog[w]) : IsSentinel(recvLog[w][k])}

\* C4: a worker is sent at most one end signal (offset -1) and, once the
\* governor has shut down, exactly one; the end signal is the last message the
\* worker receives; the worker has left its loop exactly when it has received
\* it, and it makes no pipeline invocation for it.
OneSentinelEach ==
  \A w \in Workers :
    /\ Cardinality({k \in Sentinels : sendLog[k].to = w}) <= 1
    /\ gpc = "done" => Cardinality({k \in Sentinels : sendLog[k].to = w}) = 1
    /\ SentinelsGot(w) \subseteq {Len(recvLog[w])}
    /\ wpc[w] = "exited" <=> SentinelsGot(w) # {}
    /\ wpc[w] = "exited" => toWorker[w] = <<>>
    /\ \A k \in 1..Len(runLog[w]) : ~IsSentinel(runLog[w][k].r)

\* two workers have both worked and both left on their end signal
AllLeftOnSentinel ==
  /\ FarmDone
  /\ world_size = 3
  /\ \A w \in Workers : Len(runLog[w]) >= 1 /\ SentinelsGot(w) # {}

\* C5: if every rank can read the job file, the farm terminates: the run
\* reaches a state where the governor has shut down and every worker has left
\* its loop.
FarmTerminates == FilesReadable ~> FarmDone

\* the governor waits in the drain loop for rank 1, which is still running a
\* pipeline, while the request of rank 2 is pending
DrainWaitsForBusyRank ==
  /\ world_size = 3
  /\ FilesReadable
  /\ gpc = "drain"
  /\ j = 1
  /\ wpc[1] = "work"
  /\ toGov[2] # <<>>

\* the assignments a worker has received so far
AssignmentsGot(w) ==
  {k \in 1..Len(recvLog[w]) : ~IsSentinel(recvLog[w][k])}

\* C10: a worker goes back to the top of its loop with its counter
\* incremented whether the pipeline returned or threw: the count carried by a
\* ready message equals the number of assignments the worker has received,
\* and so does the counter of a worker that is about to send or has sent it.
ReadyCountIsReceived ==
  \A w \in Workers :
    /\ \A k \in 1..Len(toGov[w]) :
         toGov[w][k] = Cardinality(AssignmentsGot(w))
    /\ wpc[w] \in {"send", "recv"}
         => /\ local_processed_counter[w] = Cardinality(AssignmentsGot(w))
            /\ Len(runLog[w]) = Cardinality(AssignmentsGot(w))

\* a ready message in flight from a worker whose last pipeline invocation
\* threw
ReadyAfterFailure ==
  \E w \in Workers :
    /\ toGov[w] # <<>>
    /\ Head(toGov[w]) >= 1
    /\ runLog[w] # <<>>
    /\ MustThrow(runLog[w][Len(runLog[w])].path)

\* the sends the governor made from its main loop: the assignments
MainLoopSends == {k \in 1..Len(sendLog) : sendLog[k].loop = "main"}

\* C11: every assignment the governor sends from its main loop carries a byte
\* offset >= 0, so that no worker takes an assignment for the end signal,
\* whatever the state of the governor's job-file stream.
AssignmentOffsetNonNegative ==
  \A k \in MainLoopSends : OffsetOf(sendLog[k].r) >= 0

(* ============================== one job =============================== *)
\* do_search is past its refinement loop, and past the dedup pass
Refined == spc \in {"sort", "rescore", "resort", "dedup", "select", "write",
                    "warn", "returned", "thrown"}
Curated == spc \in {"select", "write", "warn", "returned", "thrown"}
Selected == spc \in {"write", "warn", "returned", "thrown"}

RefineEnergy ==
  [][(rpc = "after" /\ rpc' = "out")
       => /\ out_cont'[ri + 1].c = out_cont[ri + 1].c
          /\ out_cont'[ri + 1].e = max_fl <=> ~Within(out_cont[ri + 1].c)
          /\ Within(out_cont[ri + 1].c)
               => out_cont'[ri + 1].e = out_cont[ri + 1].e]_vars

\* the refinement loop is over with one pose in the box, at a finite
\* energy, and one pose outside, at max_fl
RefinedInAndOut ==
  /\ spc = "sort"
  /\ \E k, m \in 1..Len(out_cont) :
       /\ Within(out_cont[k].c) /\ not_max(out_cont[k].e)
       /\ ~Within(out_cont[m].c) /\ out_cont[m].e = max_fl

\* C14: a pose that refinement left outside the box keeps the energy max_fl
\* through the sorts, the re-scoring and the dedup pass, and is never
\* selected: no row is emitted for it and no model of it is written, whatever
\* num_modes and energy_range.
SentinelNeverSelected ==
  /\ Refined => \A k \in 1..Len(out_cont) :
                  ~Within(out_cont[k].c) => out_cont[k].e = max_fl
  /\ \A k \in 1..Len(remarks) : not_max(remarks[k])
  /\ \A k \in 1..Len(outfile.models) : Within(outfile.models[k].c)

\* do_search returned with a model written while a pose at max_fl was still
\* in the pool
WrittenBesideSentinel ==
  /\ spc = "returned"
  /\ Len(outfile.models) = 1
  /\ Len(out_cont) = 2
  /\ out_cont[2].e = max_fl

\* C15: after the dedup pass every two distinct poses of the pool are at an
\* RMSD of at least min_rmsd = 1 from each other.
DedupPairwiseFar ==
  Curated => \A k, m \in 1..Len(out_cont) :
               k # m => TwiceRmsd(out_cont[k], out_cont[m]) >= 2

\* the dedup pass discarded one of the two poses the search returned
DedupDiscarded ==
  /\ spc = "select"
  /\ Len(refined) = 2
  /\ Len(out_cont) = 1

\* C16: after curation the pool is in non-decreasing order of energy, and no
\* pose at max_fl comes before a valid one.
PoolSortedAfterCuration ==
  Curated => \A k, m \in 1..Len(out_cont) :
               k < m => /\ out_cont[k].e <= out_cont[m].e
                        /\ not_max(out_cont[m].e) => not_max(out_cont[k].e)

\* a curated pool of two valid poses of different energies
CuratedTwoValid ==
  /\ spc = "select"
  /\ Len(out_cont) = 2
  /\ out_cont[1].e < out_cont[2].e
  /\ not_max(out_cont[2].e)

\* C17: the dedup pass applied to a pool that is the output of the dedup pass
\* returns that pool: the same poses in the same order.
DedupIdempotent ==
  Curated => remove_redundant(out_cont, out_min_rmsd) = out_cont

\* a deduplicated pool that holds a valid pose and an invalid one
CuratedValidAndInvalid ==
  /\ spc = "select"
  /\ Len(out_cont) = 2
  /\ not_max(out_cont[1].e)
  /\ ~not_max(out_cont[2].e)

\* C18: selection emits a prefix of the deduplicated pool: at most num_modes
\* rows, none for a pose at max_fl, none for an energy above best +
\* energy_range; the pose after the last row, if there is one, is a stopping
\* pose; the models written are the poses of the rows, in order.
SelectionIsStoppedPrefix ==
  Selected =>
    /\ how_many <= num_modes
    /\ how_many <= Len(out_cont)
    /\ Len(remarks) = how_many
    /\ \A k \in 1..how_many :
         /\ not_max(out_cont[k].e)
         /\ out_cont[k].e <= out_cont[1].e + energy_range
         /\ remarks[k] = out_cont[k].e
    /\ how_many < Len(out_cont)
         => \/ how_many = num_modes
            \/ ~not_max(out_cont[how_many + 1].e)
            \/ out_cont[how_many + 1].e > out_cont[1].e + energy_range
    /\ outfile.written
         => /\ Len(outfile.models) = how_many
            /\ \A k \in 1..how_many :
                 /\ outfile.models[k].c = out_cont[k].c
                 /\ outfile.models[k].remark = out_cont[k].e

\* selection stopped at a valid second pose whose energy is out of range,
\* with num_modes not yet reached
StoppedOnEnergyRange ==
  /\ spc = "returned"
  /\ num_modes = 2
  /\ how_many = 1
  /\ Len(out_cont) = 2
  /\ not_max(out_cont[2].e)

\* C19: zero selected poses is not an error: do_search never throws, the
\* warning is logged if and only if no pose was selected, and do_search
\* returns with the output file written, holding as many models as were
\* selected.
WarningIffNoneSelected ==
  /\ spc # "thrown"
  /\ spc # "returned" => ~warned
  /\ spc = "returned"
       => /\ warned <=> how_many = 0
          /\ outfile.written
          /\ Len(outfile.models) = how_many

\* do_search returned with the warning and an empty output file although the
\* pool was not empty
ReturnedWithWarning ==
  /\ spc = "returned"
  /\ warned
  /\ outfile.written
  /\ outfile.models = <<>>
  /\ out_cont # <<>>

\* the place of a phase in the order of do_search
PhaseRank(e) ==
  CASE e = "search" -> 1
    [] e = "refine" -> 2
    [] e = "sort"   -> 3
    [] e = "dedup"  -> 4
    [] e = "select" -> 5
    [] e = "write"  -> 6

\* C20: the phases of a job are in order: the search comes first and once,
\* then one refinement per pose the search returned, each pose refined
\* exactly once before the pool is sorted and deduplicated, then selection,
\* then the write of the output file; nothing is written before.
PhasesOrdered ==
  /\ \A k, m \in 1..Len(events) :
       k < m => /\ PhaseRank(events[k]) <= PhaseRank(events[m])
                /\ events[k] = events[m] => events[k] = "refine"
  /\ events # <<>> => events[1] = "search"
  /\ \A k \in 1..Len(refined) : refined[k] <= 1
  /\ Refined => \A k \in 1..Len(refined) : refined[k] = 1
  /\ Refined => Cardinality({k \in 1..Len(events) : events[k] = "refine"})
                  = Len(refined)
  /\ outfile.written
       => /\ events[Len(events)] = "write"
          /\ \E k \in 1..Len(events) : events[k] = "select"
  /\ ~Selected => ~outfile.written

\* a job went through every phase with two poses
AllPhasesTwoPoses ==
  /\ spc = "returned"
  /\ events = <<"search", "refine", "refine", "sort", "dedup", "select",
                "write">>

\* C24: a failed fork is fatal: the parent returns 10 at once; it has run no
\* pipeline itself, and from then on it reads no line, forks no child and
\* waits for none.
SpawnFailureFatal ==
  /\ [](rc = 10 => (ppc = "returned" /\ runs = <<>>))
  /\ [][rc = 10 => /\ UNCHANGED <<ppc, infile, path, runs, pid_queue, rc>>
                   /\ Len(child') = Len(child)]_vars

\* the fork of a later job failed: children are outstanding and job lines
\* are left unread
ForkFailedMidway ==
  /\ ppc = "returned"
  /\ rc = 10
  /\ Unreaped # {}
  /\ Good(infile)
  /\ infile.pos < Len(jobfile)

\* C29: a fork child calls the pipeline once and leaves the loop, whether the
\* call returned or threw; its copies of the job stream and of the pid queue
\* stay as they were at the fork, and children are forked by the parent only.
ChildRunsOnce ==
  /\ [](\A c \in 1..Len(child) :
          /\ child[c].calls <= 1
          /\ child[c].state # "running" <=> child[c].calls = 1)
  /\ [][/\ \A c \in 1..Len(child) :
             /\ child'[c].infile = child[c].infile
             /\ child'[c].pid_queue = child[c].pid_queue
             /\ child[c].state # "running" => child'[c].calls = child[c].calls
        /\ Len(child') > Len(child) => ppc = "fork"]_vars

\* one child left after a pipeline that threw and one after a pipeline that
\* returned, the first with job lines ahead of it and the second with an
\* inherited queue that is not empty
ChildrenLeftBothWays ==
  \E c1, c2 \in 1..Len(child) :
    /\ child[c1].state # "running" /\ ~child[c1].ok
    /\ child[c1].path # <<>>
    /\ child[c1].infile.pos < Len(jobfile)
    /\ child[c2].state # "running" /\ child[c2].ok
    /\ child[c2].pid_queue # <<>>

\* the line starts that lie after the first blank line
AfterFirstBlank(file, Blank(_)) ==
  {p \in LineStarts(file) :
     \E q \in LineStarts(file) : q < p /\ Blank(LineAt(file, q))}

\* C25: enumeration ends at the first blank line or at the end of the file,
\* in both schedulers: when the batch loop is left the jobs dispatched are the
\* lines before the first blank line, all of them and in order; when the farm
\* is done every such line was assigned and no line after the first blank
\* line was.
EnumerationEndsAtBlank ==
  /\ ppc = "done"
       => /\ Len(Dispatched) = Cardinality(LigandLines(jobfile, IsEmpty))
          /\ \A k \in 1..Len(Dispatched) :
               Dispatched[k]
                 = LinesIn(jobfile, LigandLines(jobfile, IsEmpty))[k]
  /\ (FarmDone /\ FilesReadable)
       => /\ \A p \in LigandLines(jobfile, AllWhitespace) : SendsOf(p) # {}
          /\ \A p \in AfterFirstBlank(jobfile, AllWhitespace) :
               SendsOf(p) = {}

\* the messages the governor sent to worker w, and the ready messages it
\* received from w
SentTo(w) == {k \in 1..Len(sendLog) : sendLog[k].to = w}
ReadyFrom(w) == {k \in 1..Len(readyLog) : readyLog[k].from = w}

\* C28: the governor answers each ready message of a worker with exactly one
\* message and sends a worker nothing else: the messages sent to w are as
\* many as the ready messages received from w, a send to w takes a ready
\* message of w off the channel, and at most one message per worker is in
\* flight or being worked on; a worker has at most one ready message
\* unanswered.
RequestReplyAlternation ==
  /\ [](\A w \in Workers :
          /\ Cardinality(SentTo(w)) = Cardinality(ReadyFrom(w))
          /\ Len(toWorker[w]) + (IF wpc[w] = "work" THEN 1 ELSE 0) <= 1
          /\ Len(toGov[w]) <= 1)
  /\ [][\A w \in Workers :
          Len(toWorker'[w]) > Len(toWorker[w])
            => /\ toGov[w] # <<>>
               /\ toGov'[w] = Tail(toGov[w])
               /\ Len(toWorker'[w]) = Len(toWorker[w]) + 1]_vars

\* a worker is at work on its second assignment while the other worker has
\* been answered and has not yet taken the answer
SecondAssignmentInHand ==
  \E w, v \in Workers :
    /\ w # v
    /\ wpc[w] = "work"
    /\ Cardinality(ReadyFrom(w)) = 2
    /\ Len(toWorker[v]) = 1

\* the decimal exponents of 1e2, 1e4, 1e6, 1e8, 1e10
Schedule == <<2, 4, 6, 8, 10>>

\* C27: attempt p of a refine_structure call runs the minimizer with slope
\* 100 * 10^(2p): 1e2, 1e4, 1e6, 1e8, 1e10 in that order; the call runs the
\* minimizer at least once and at most 5 times, and no attempt follows the
\* first one that ends within the box.
EscalationSchedule ==
  /\ [](/\ Len(attempts) <= 5
        /\ \A k \in 1..Len(attempts) :
             /\ attempts[k].slope = Schedule[k]
             /\ k < Len(attempts) => ~attempts[k].within)
  /\ [][(rpc = "after" /\ rpc' = "out")
          => /\ Len(attempts) >= 1
             /\ Len(attempts) < 5 => attempts[Len(attempts)].within]_vars

\* the third attempt of a call was the first to end within the box, and the
\* loop was left
StoppedAtThirdAttempt ==
  /\ rpc = "after"
  /\ Len(attempts) = 3
  /\ attempts[3].within
  /\ nc_slope = 6

\* the ways to find the poses of out, in order, among the poses of in
Embeddings(in, out) ==
  {f \in [1..Len(out) -> 1..Len(in)] :
     /\ \A k \in 1..Len(out) : out[k] = in[f[k]]
     /\ \A k \in 1..(Len(out) - 1) : f[k] < f[k + 1]}

\* out keeps the first pose of in; every pose of in it drops is within
\* min_rmsd of a pose it keeps whose energy is not higher; and it keeps every
\* pose that is at min_rmsd or more from all poses kept before it
GreedyRepresentatives(in, out, min_rmsd) ==
  \E f \in Embeddings(in, out) :
    LET kept == {f[k] : k \in 1..Len(out)}
    IN /\ in # <<>> => 1 \in kept
       /\ \A n \in (1..Len(in)) \ kept :
            \E k \in kept : /\ TwiceRmsd(in[n], in[k]) < 2 * min_rmsd
                            /\ in[k].e <= in[n].e
       /\ \A n \in 1..Len(in) :
            (\A k \in kept : k < n => TwiceRmsd(in[n], in[k]) >= 2 * min_rmsd)
              => n \in kept

\* C30: on a pool sorted by energy the dedup pass is greedy: the pose of
\* lowest energy is kept, every pose discarded is within min_rmsd of a kept
\* pose of energy less than or equal to its own, and a pose at min_rmsd or
\* more from every pose accepted before it is never discarded.
DedupGreedy ==
  [][(spc = "dedup" /\ spc' = "select")
       => GreedyRepresentatives(out_cont, out_cont', out_min_rmsd)]_vars

\* three poses went in and two came out, a full angstrom apart: the one
\* between them, within min_rmsd of both, was discarded
MiddlePoseDiscarded ==
  /\ spc = "select"
  /\ Len(refined) = 3
  /\ Len(out_cont) = 2
  /\ out_cont[1].c = 1
  /\ out_cont[2].c = 3
  /\ out_cont[1].e < out_cont[2].e

\* C31: every assignment the governor sends that is not the end signal
\* carries the offset of the start of a ligand line of the job file, never the
\* end-of-file position and never the offset of a blank line, and the worker
\* that seeks to it and reads a line gets a path that is not empty.
AssignmentsAreLigandLines ==
  /\ \A k \in Assignments :
       OffsetOf(sendLog[k].r) \in LigandLines(jobfile, AllWhitespace)
  /\ \A w \in Workers : \A k \in 1..Len(runLog[w]) :
       runLog[w][k].path # <<>>

\* C32: the batch loop, sequential or fork, stops at the read that reaches
\* the end of the file: once eofbit is set nothing more is dispatched, and
\* the jobs dispatched are lines that a newline follows, so a last line with
\* no newline after it is never dispatched.
StopsAtEndOfFile ==
  /\ infile.eof => ppc \in {"drain", "done"}
  /\ Len(Dispatched) <= Cardinality(Dispatchable(jobfile))
  /\ \A k \in 1..Len(Dispatched) :
       Dispatched[k] = LinesIn(jobfile, Dispatchable(jobfile))[k]

\* the loop was left after it dispatched the lines before a last line that
\* is not empty and has no newline after it
FinalLineDropped ==
  /\ ppc = "done"
  /\ \E p \in LigandLines(jobfile, IsEmpty) :
       /\ ~Terminated(jobfile, p)
       /\ LineAt(jobfile, p) # <<>>
  /\ Len(Dispatched) >= 1
  /\ Len(Dispatched) = Cardinality(LigandLines(jobfile, IsEmpty)) - 1

\* the step stores a tuple in the buffer of rank b, or frees the buffer
Touched(b) ==
  \/ rank_list'[b] # rank_list[b]
  \/ /\ Len(sendLog') > Len(sendLog)
     /\ sendLog'[Len(sendLog')].loop = "main"
     /\ BufferOf(sendLog'[Len(sendLog')].to) = b

\* C33: the buffer a non-blocking send to a worker reads from is neither
\* overwritten nor freed while a message sent from it is still on its way:
\* whenever the governor stores a tuple in the buffer of a rank or deletes
\* it, in the main loop or in the drain loop, no message to a worker that is
\* served from that buffer is undelivered.
SendBufferRaceFree ==
  [][\A b \in Workers :
       Touched(b) => \A v \in Workers : BufferOf(v) = b => toWorker[v] = <<>>]_vars

\* the buffer of a worker was written twice in the main loop and freed in the
\* drain loop, while the answer to another worker is still on its way
BufferReusedAndFreed ==
  \E w, v \in Workers :
    /\ w # v
    /\ Cardinality({k \in SentTo(w) : sendLog[k].loop = "main"}) >= 2
    /\ ~rank_list[w].alloc
    /\ Len(toWorker[v]) = 1

\* the children that are still running
Running == {c \in 1..Len(child) : child[c].state = "running"}

\* C34: on a failed fork the parent returns 10 at once, without the drain
\* loop: the step that returns leaves the pid queue and the children as they
\* are, no child is reaped afterwards, and with fan-out N >= 1 at most N - 1
\* children are outstanding, which may all be running still.
ReturnsWithoutDrain ==
  /\ []((rc = 10 /\ maxNbrOfFork >= 1)
          => /\ ppc = "returned"
             /\ Cardinality(Unreaped) <= maxNbrOfFork - 1
             /\ Len(pid_queue) = Cardinality(Unreaped))
  /\ [][/\ (ppc = "fork" /\ rc' = 10) => UNCHANGED <<pid_queue, child>>
        /\ rc = 10 => /\ pid_queue' = pid_queue
                      /\ \A c \in 1..Len(child) :
                           child'[c].state = "reaped"
                             => child[c].state = "reaped"]_vars

\* the parent returned 10 with N - 1 children running, N being the largest
\* fan-out
ReturnedWithChildrenRunning ==
  /\ ppc = "returned"
  /\ rc = 10
  /\ maxNbrOfFork = MaxFork
  /\ Cardinality(Running) = maxNbrOfFork - 1
  /\ Running = Unreaped

(* ================================ main() =============================== *)
\* how often this process logged ev
Times(ev) == Cardinality({k \in 1..Len(trace) : trace[k] = ev})

\* the strategies this process entered: the fan-out branch and the farm
Strategies == {k \in 1..Len(entered) : entered[k] \in {"batch", "farm"}}

\* C21: the receptor template is never modified after it is built, and the
\* model a job runs the pipeline on is the receptor plus the ligand of that
\* job alone, whatever jobs came before and however they ended.
CloneIsolation ==
  /\ templateModel.built => templateModel = Receptor
  /\ mppc # "out" => /\ job_m.built
                     /\ job_m.ligands = <<jobs>>

\* a second job of a batch process ran the pipeline after a first one did
SecondJobOnCleanCopy ==
  /\ mainpc \in {"batch", "farm"}
  /\ jobs = 2
  /\ Times("job") = 2
  /\ mppc \in {"returned", "thrown"}
  /\ job_m.moved

\* C22: in a process that runs its jobs itself (the batch process without
\* fork, a farm worker) in search mode, the grid is populated once, before
\* the first job, and never again.
GridPopulatedOnce ==
  (~score_only /\ ~local_only /\ ~randomize_only /\ ~use_fork_parallelism)
    => /\ Times("populate") <= 1
       /\ Times("job") > 0 => trace[1] = "populate"

\* C23: a batch run enters exactly one of the fan-out branch and the farm
\* branch, whatever the batch, fork and mpi switches are; a run without
\* --batch enters neither.
OneStrategyPerBatchRun ==
  /\ Cardinality(Strategies) <= 1
  /\ (batchMode /\ mainpc \notin {"test_batch", "test_farm"})
       => Cardinality(Strategies) = 1
  /\ ~batchMode => Strategies = {}
  /\ batchMode => "single" \notin {entered[k] : k \in 1..Len(entered)}

\* a fork child left the fan-out branch and passed the later tests
ChildPassedLaterTests ==
  /\ batchMode
  /\ role = "child"
  /\ mainpc = "end"
  /\ entered = <<"batch">>

\* C26 as stated: populate is invoked exactly in the runs that are neither
\* score-only nor randomize-only, a local-only run included.
GridIffNotScoreOrRandomize ==
  /\ mppc \in {"search", "returned", "thrown"}
       => (grid = "populated" <=> ~(score_only \/ randomize_only))
  /\ (score_only \/ randomize_only) => Times("populate") = 0

\* C26, amended: populate is invoked exactly in the runs that are none of
\* score-only, randomize-only and local-only; in those three kinds of run
\* no grid is ever populated.
GridIffSearchRun ==
  /\ mppc \in {"search", "returned", "thrown"}
       => (grid = "populated"
             <=> ~(score_only \/ randomize_only \/ local_only))
  /\ (score_only \/ randomize_only \/ local_only) => Times("populate") = 0
  /\ \A k \in 1..Len(trace) :
       trace[k] = "search" => k > 1 /\ trace[k - 1] = "populate"

\* a local-only run went through do_search with a grid that was constructed
\* and never populated
LocalOnlyWithoutGrid ==
  /\ local_only /\ ~score_only /\ ~randomize_only
  /\ mppc = "returned"
  /\ grid = "built"
  /\ trace[Len(trace)] = "local"

====
